---- MODULE Spec2Model ----
(***************************************************************************)
(* Authentication / session-refresh core of the note-taking application.   *)
(*                                                                         *)
(*   server : src/server/src/index.js  (signup, login, logout,             *)
(*            refresh-token, the refresh-token collection)                  *)
(*   client : src/apps/web/src/main.tsx (axios response interceptor,       *)
(*            module-scoped refreshPromise, AuthProvider start-up refresh)  *)
(*                                                                         *)
(* Three specifications share the variables below:                          *)
(*   Spec       - the server, one request at a time (atomic handlers)       *)
(*   SpecConc   - the server, two requests whose store steps interleave     *)
(*   SpecClient - one browser tab talking to an abstracted server           *)
(***************************************************************************)
EXTENDS Integers, Naturals, Sequences, FiniteSets, TLC

\* ------------------------------------------------------------------ bounds
\* state-changing steps of a run: successful requests and clock advances
MaxSteps == 4
\* the same, in runs of SpecConc
MaxConcSteps == 3
\* the same, in runs of SpecShort
MaxShortSteps == 3
\* SpecClient: protected requests, /refresh-token calls and access tokens of a run
MaxReqs   == 2
MaxCalls  == 2
MaxTokens == 2
\* SpecGuard: clock advances of a run
MaxGuardTicks == 3

\* ------------------------------------------------------- program constants
\* index.js:113-114.  The same number is handed to jsonwebtoken as
\* expiresIn (a number there means SECONDS) and added to Date.now() (MILLISECONDS).
jwtAccessExpiresIn  == 3600000
jwtRefreshExpiresIn == 604800000

\* ------------------------------------------------------------- input sets
Devices   == {"devA", "devB"}
NoDeviceHeader == "noHeader"          \* request without a parsable x-device-info
DevInputs == Devices \cup {NoDeviceHeader}
\* an x-device-info that JSON.parse accepts and whose deviceId is no string
\* (such as {"deviceId": {}}), which the schema of the record cannot cast
BadDeviceInfo == "badShape"
Emails    == {"a@b.co", "c@d.co", "bad@"}  \* "bad@" fails emailRegExp
Usernames == {"alice", "bob"}
Passwords == {"pw1", "pw2"}
SignupPasswords == {"pw1"}            \* the password every account is created with
\* what /login may receive as usernameOrEmail and password; "" is a blank field
Identifiers    == Emails \cup Usernames \cup {""}
LoginPasswords == Passwords \cup {""}

\* ------------------------------------------------------------------- clock
\* The clock counts hours; requests with no clock advance between them fall
\* into the same second.
HourMs == 60 * 60 * 1000
\* Date.now() + jwtRefreshExpiresIn: the number is milliseconds (7 days)
RecordLifetime     == jwtRefreshExpiresIn \div HourMs
\* jwtAccessExpiresIn = 1000 * 60 * 60 read as milliseconds: one hour
AccessLifetime     == jwtAccessExpiresIn \div HourMs
\* jwt.sign(..., { expiresIn: <number> }): the number is seconds
JwtRefreshLifetime == jwtRefreshExpiresIn \div (HourMs \div 1000)
JwtAccessLifetime  == jwtAccessExpiresIn \div (HourMs \div 1000)
\* clock advances: the next hour; just past a stored record's expiresAt; past
\* the exp claim of a refresh JWT
Jumps     == {1, RecordLifetime + 1, JwtRefreshLifetime + 1}

VARIABLES
    now,        \* the clock, in hours
    steps,      \* state-changing steps so far (bounds the model)
    users,      \* the users collection
    records,    \* the refreshTokens collection
    issued,     \* every refresh token any response has set as a cookie so far
    spent,      \* <<token, device>> pairs a successful refresh has consumed
    lastResp,   \* the response to the latest request
    \* --- SpecConc: two requests in flight on the server
    pc,         \* where each request stands in its handler
    loc,        \* the handler's local variables
    resp,       \* the response each request received
    \* --- SpecClient: one browser tab
    mounted,        \* AuthProvider's effect has run
    userState,      \* AuthProvider's state `user`: "null", "profile" or "undefined"
    authHeader,     \* api.defaults.headers.common["Authorization"]
    authCache,      \* the query cache entry ["auth"]: "empty" or "data"
    noteValue,      \* App's note state holds text (the 5 s save timer sends it)
    refreshPromise, \* the module-scoped refreshPromise: 0 (null) or the call it wraps
    calls,          \* the POST /refresh-token calls of the interceptor
    reqs,           \* the protected requests of this tab
    nextTok,        \* the next access token the server will issue
    expiredUpTo,    \* the access tokens the Access Guard no longer accepts
    startup,        \* the start-up refresh: "idle", "outstanding" or "settled"
    \* --- SpecGuard: one request to a protected route
    header,         \* req.headers.authorization
    guard,          \* what authMiddleware did with it
    \* --- SpecLogout: the logout button of the tab
    logoutMutation  \* the status of useLogout's mutation

svars == <<now, steps, users, records, issued, spent, lastResp>>
pvars == <<pc, loc, resp>>
cvars == <<mounted, userState, authHeader, authCache, noteValue, refreshPromise,
           calls, reqs, nextTok, expiredUpTo, startup>>
gvars == <<header, guard>>
lvars == <<logoutMutation>>

\* ------------------------------------------------------------------ tokens
\* A JWT is determined by its payload {userId, email, iat, exp} and the secret
\* that signed it: jwt.sign is deterministic, so two tokens signed for the same
\* user with the same secret within the same second are the same string.
Jwt(kind, uid, email, iat, exp) ==
    [kind |-> kind, userId |-> uid, email |-> email, iat |-> iat, exp |-> exp]
NoToken == Jwt("none", 0, "", 0, 0)        \* no cookie
Garbage == Jwt("garbage", 0, "", 0, 0)     \* a string that is not a JWT

signJwtAccess(uid, email) ==
    Jwt("access", uid, email, now, now + JwtAccessLifetime)
signJwtRefresh(uid, email) ==
    Jwt("refresh", uid, email, now, now + JwtRefreshLifetime)

\* a verification that accepts a signature made with either secret
jwtVerifyAnySecret(tok, kind) == tok.kind \in {"access", "refresh"} /\ now < tok.exp
\* jwt.verify(token, secret): signature made with that secret and not expired
jwtVerify(tok, kind) == tok.kind = kind /\ now < tok.exp

\* bcrypt reads only the first 72 bytes of its input.  A token is
\* base64url(header) "." base64url(payload) "." signature; the header takes 36
\* characters and the payload starts with {"userId":"<24 hex digits>", so the
\* first 72 bytes end inside the userId and carry neither iat, exp nor the
\* signature.
Trunc72(tok) == [userId |-> tok.userId]
\* a store step that keeps the token as it is
bcryptHashRaw(tok, salt) == tok
\* await bcryptjs.hash(refreshToken, 10)
bcryptHash(tok, salt) == [salt |-> salt, digest |-> Trunc72(tok)]
compareSync(tok, hash) == Trunc72(tok) = hash.digest

\* passwords are shorter than 72 bytes
hashPassword(pw, salt) == [salt |-> salt, digest |-> pw]
\* a comparison that accepts every password
comparePasswordAlways(pw, hash) == TRUE
\* bcryptjs.compare(password, userInDb.password)
comparePassword(pw, hash) == hash.digest = pw

emailRegExpTest(e) == e \in {"a@b.co", "c@d.co"}
\* usernameOrEmail.includes("@")
includesAt(i) == i \in {"a@b.co", "c@d.co", "bad@"}

\* ---------------------------------------------------------------- messages
InvalidInputMsg   == "Invalid email, username or password!"
EmailExistsMsg    == "User with that email already exists!"
NameExistsMsg     == "User with that username already exists!"
NoSuchUserMsg     == "User with that email or username does not exists!"
BadPasswordMsg    == "Email or password is invalid!"
InvalidRefreshMsg == "Invalid refresh token!"
ExpiredMsg        == "Refresh token expired! Please login again."
UserNotFoundMsg   == "User not found!"
LoggedOutMsg      == "Logged out successfully!"
\* e.message of the SyntaxError JSON.parse(undefined) throws
JsonParseMsg      == "\"undefined\" is not valid JSON"
\* e.message of the ReferenceError thrown where /refresh-token reads the
\* identifier hashedRefreshToken, which that handler never declares
ReferenceErrorMsg == "hashedRefreshToken is not defined"
\* the ValidationError of RefreshTokenModel.create
ValidationErrorMsg == "refreshToken validation failed"

\* --------------------------------------------------------------- responses
\* what the handler sent: res.status(..).json(..), res.cookie(..), res.clearCookie(..)
\* dev: the deviceId of the session the request created or ended, if it did
\* the JSON body is {ok, message, accessToken, user}
NoUser == [id |-> 0, email |-> "", username |-> "", password |-> [salt |-> 0, digest |-> ""]]
\* a response that also returns the cookie's token in the body
ResponseWithCookieInBody(op, dev, ok, status, message, access, user, setCookie, cleared) ==
    [op |-> op, dev |-> dev, ok |-> ok, status |-> status, message |-> message,
     accessToken |-> setCookie, user |-> user, setCookie |-> setCookie, cleared |-> cleared]
Response(op, dev, ok, status, message, access, user, setCookie, cleared) ==
    [op |-> op, dev |-> dev, ok |-> ok, status |-> status, message |-> message,
     accessToken |-> access, user |-> user, setCookie |-> setCookie, cleared |-> cleared]
\* the values of the fields of the JSON body of a response
jsonBody(r) == {r.accessToken, r.user}
NoResponse == Response("none", NoDeviceHeader, FALSE, 0, "", NoToken, NoUser, NoToken, FALSE)

\* a catch block that answers ok: true
FailOk(op, message) ==
    /\ lastResp' = Response(op, NoDeviceHeader, TRUE, 200, message, NoToken, NoUser,
                            NoToken, FALSE)
    /\ UNCHANGED <<users, records, issued, spent, steps>>
\* catch (e) { res.json({ ok: false, message: e.message }) }: HTTP 200, no cookie
Fail(op, message) ==
    /\ lastResp' = Response(op, NoDeviceHeader, FALSE, 200, message, NoToken, NoUser,
                            NoToken, FALSE)
    /\ UNCHANGED <<users, records, issued, spent, steps>>

\* ------------------------------------------------------------ session store
NoRecord == [rid |-> 0, token |-> [salt |-> 0, digest |-> [userId |-> 0]],
             user |-> 0, expiresAt |-> 0, dev |-> NoDeviceHeader]
Procs   == {1, 2}
IdleLoc == [op |-> "none", tok |-> NoToken, dev |-> NoDeviceHeader, uid |-> 0,
            email |-> "", username |-> "", password |-> "", token |-> NoRecord,
            accessToken |-> NoToken, refreshToken |-> NoToken]
RefreshTokenRecord(rid, hash, uid, dev) ==
    [rid |-> rid, token |-> hash, user |-> uid,
     expiresAt |-> now + RecordLifetime, dev |-> dev]
\* The _id of a new document and the salt of a new bcrypt hash are fresh random
\* values: they differ from those of every document that exists.
UsedRids == {r.rid : r \in records} \cup {loc[p].token.rid : p \in DOMAIN loc}
FreshRid == CHOOSE n \in 1..(Cardinality(UsedRids) + 1) :
               /\ n \notin UsedRids
               /\ \A m \in 1..(n - 1) : m \in UsedRids
\* RefreshTokenModel.findOne / deleteMany ({user, "deviceInfo.deviceId"})
RecordsOf(uid, dev) == {r \in records : r.user = uid /\ r.dev = dev}
RecordsOfUser(uid)  == {r \in records : r.user = uid}
\* the document a findById / findOne of the handler returned
UserById(uid) == CHOOSE u \in users : u.id = uid

\* ------------------------------------------------------------------ signup
\* RefreshTokenModel.deleteMany({ user: user._id })
SignupDeleteMany(uid) == RecordsOfUser(uid)

Signup(email, username, password, dev) ==
    /\ steps < MaxSteps
    /\ IF dev = NoDeviceHeader
       THEN Fail("signup", JsonParseMsg)
       ELSE IF ~emailRegExpTest(email)
       THEN Fail("signup", InvalidInputMsg)
       ELSE IF \E u \in users : u.email = email
       THEN Fail("signup", EmailExistsMsg)
       ELSE IF \E u \in users : u.username = username
       THEN Fail("signup", NameExistsMsg)
       ELSE
         LET uid          == Cardinality(users) + 1
             user         == [id |-> uid, email |-> email, username |-> username,
                              password |-> hashPassword(password, uid)]
             accessToken  == signJwtAccess(uid, email)
             refreshToken == signJwtRefresh(uid, email)
         IN  IF dev = BadDeviceInfo
             THEN \* UserModel.create has run; RefreshTokenModel.create rejects
                  /\ users' = users \cup {user}
                  /\ records' = records \ SignupDeleteMany(uid)
                  /\ lastResp' = Response("signup", NoDeviceHeader, FALSE, 200,
                                          ValidationErrorMsg, NoToken, NoUser, NoToken, FALSE)
                  /\ steps' = steps + 1
                  /\ UNCHANGED <<issued, spent>>
             ELSE
             /\ users' = users \cup {user}
             /\ records' = (records \ SignupDeleteMany(uid)) \cup
                    {RefreshTokenRecord(FreshRid, bcryptHash(refreshToken, FreshRid), uid, dev)}
             /\ issued' = issued \cup {refreshToken}
             /\ lastResp' = Response("signup", dev, TRUE, 201, "",
                                     accessToken, user, refreshToken, FALSE)
             /\ steps' = steps + 1
             /\ UNCHANGED spent
    /\ UNCHANGED now

\* ------------------------------------------------------------------- login
\* a login that clears the user's sessions on every device, as signup does
LoginDeleteManyAllDevices(uid, dev) == RecordsOfUser(uid)
\* RefreshTokenModel.deleteMany({ user: userInDb._id, "deviceInfo.deviceId" })
LoginDeleteMany(uid, dev) == RecordsOf(uid, dev)

\* the first check of /login: both fields non-blank, and an identifier that
\* contains "@" passes emailRegExp
LoginInputValid(usernameOrEmail, password) ==
    /\ usernameOrEmail # ""
    /\ password # ""
    /\ includesAt(usernameOrEmail) => emailRegExpTest(usernameOrEmail)

Login(usernameOrEmail, password, dev) ==
    /\ steps < MaxSteps
    /\ LET found == {u \in users : u.email = usernameOrEmail \/ u.username = usernameOrEmail}
       IN IF ~LoginInputValid(usernameOrEmail, password)
          THEN Fail("login", InvalidInputMsg)
          ELSE IF found = {}
          THEN Fail("login", NoSuchUserMsg)
          ELSE \E userInDb \in found :
            IF ~comparePassword(password, userInDb.password)
            THEN Fail("login", BadPasswordMsg)
            ELSE IF dev = NoDeviceHeader
            THEN Fail("login", JsonParseMsg)
            ELSE
              LET token        == signJwtAccess(userInDb.id, userInDb.email)
                  refreshToken == signJwtRefresh(userInDb.id, userInDb.email)
              IN  /\ records' = (records \ LoginDeleteMany(userInDb.id, dev)) \cup
                         {RefreshTokenRecord(FreshRid, bcryptHash(refreshToken, FreshRid),
                                             userInDb.id, dev)}
                  /\ issued' = issued \cup {refreshToken}
                  /\ lastResp' = Response("login", dev, TRUE, 201, "",
                                          token, userInDb, refreshToken, FALSE)
                  /\ steps' = steps + 1
                  /\ UNCHANGED <<users, spent>>
    /\ UNCHANGED now

\* ------------------------------------------------------------------ logout
\* RefreshTokenModel.deleteMany({ token: tokenInDb.token, "deviceInfo.deviceId" })
\* a logout that leaves the record in place
LogoutDeleteManyNothing(tokenInDb, dev) == {}
\* a logout that deletes by deviceId alone
LogoutDeleteManyOnDevice(tokenInDb, dev) == {r \in records : r.dev = dev}
\* RefreshTokenModel.deleteMany({ token: tokenInDb.token, "deviceInfo.deviceId" })
LogoutDeleteMany(tokenInDb, dev) ==
    {r \in records : r.token = tokenInDb.token /\ r.dev = dev}

Logout(tok, dev) ==
    /\ steps < MaxSteps
    /\ IF dev = NoDeviceHeader
       THEN Fail("logout", JsonParseMsg)
       ELSE IF tok = NoToken
       THEN Fail("logout", InvalidRefreshMsg)
       ELSE IF ~jwtVerify(tok, "refresh")
       THEN Fail("logout", InvalidRefreshMsg)
       ELSE IF ~\E u \in users : u.id = tok.userId
       THEN Fail("logout", UserNotFoundMsg)
       ELSE IF RecordsOf(tok.userId, dev) = {}
       THEN Fail("logout", InvalidRefreshMsg)
       ELSE \E tokenInDb \in RecordsOf(tok.userId, dev) :
         IF ~compareSync(tok, tokenInDb.token)
         THEN Fail("logout", InvalidRefreshMsg)
         ELSE
           /\ records' = records \ LogoutDeleteMany(tokenInDb, dev)
           /\ lastResp' = Response("logout", dev, TRUE, 200, LoggedOutMsg,
                                   NoToken, NoUser, NoToken, TRUE)
           /\ steps' = steps + 1
           /\ UNCHANGED <<users, issued, spent>>
    /\ UNCHANGED now

\* ----------------------------------------------------------- refresh-token
\* a rotation that forgets to delete the record it supersedes
RefreshDeleteManyNothing(uid, dev) == {}
\* RefreshTokenModel.deleteMany({ user: user._id, "deviceInfo.deviceId" })
RefreshDeleteMany(uid, dev) == RecordsOf(uid, dev)

\* the checks of /refresh-token that a request passes before it rotates
RefreshAccepts(tok, dev, token) ==
    /\ tok # NoToken
    /\ dev # NoDeviceHeader
    /\ jwtVerify(tok, "refresh")
    /\ token \in RecordsOf(tok.userId, dev)
    /\ \E u \in users : u.id = token.user
    /\ compareSync(tok, token.token)
    /\ ~(token.expiresAt < now)

Refresh(tok, dev) ==
    /\ steps < MaxSteps
    /\ IF tok = NoToken
       THEN Fail("refresh", InvalidRefreshMsg)
       ELSE IF dev = NoDeviceHeader
       THEN Fail("refresh", JsonParseMsg)
       ELSE IF ~jwtVerify(tok, "refresh")
       THEN \* the catch block reads hashedRefreshToken before deleteMany is called
            Fail("refresh", ReferenceErrorMsg)
       ELSE IF RecordsOf(tok.userId, dev) = {}
       THEN Fail("refresh", InvalidRefreshMsg)
       ELSE \E token \in RecordsOf(tok.userId, dev) :
         IF ~\E u \in users : u.id = token.user
         THEN /\ records' = records \ RecordsOfUser(token.user)
              /\ lastResp' = Response("refresh", NoDeviceHeader, FALSE, 200, UserNotFoundMsg,
                                      NoToken, NoUser, NoToken, FALSE)
              /\ steps' = steps + 1
           /\ UNCHANGED <<users, issued, spent>>
         ELSE IF ~compareSync(tok, token.token)
         THEN Fail("refresh", InvalidRefreshMsg)
         ELSE IF token.expiresAt < now
         THEN \* the filter object reads hashedRefreshToken before deleteMany is called
              Fail("refresh", ReferenceErrorMsg)
         ELSE
           LET user            == CHOOSE u \in users : u.id = token.user
               accessToken     == signJwtAccess(tok.userId, tok.email)
               newRefreshToken == signJwtRefresh(user.id, user.email)
           IN  /\ records' = (records \ RefreshDeleteMany(user.id, dev)) \cup
                      {RefreshTokenRecord(FreshRid, bcryptHash(newRefreshToken, FreshRid),
                                          user.id, dev)}
               /\ issued' = issued \cup {newRefreshToken}
               /\ spent' = spent \cup {<<tok, dev>>}
               /\ lastResp' = Response("refresh", dev, TRUE, 200, "",
                                       accessToken, user, newRefreshToken, FALSE)
               /\ steps' = steps + 1
               /\ UNCHANGED users
    /\ UNCHANGED now

\* -------------------------------------------------------------------- time
Tick(d) ==
    /\ steps < MaxSteps
    /\ now' = now + d
    /\ steps' = steps + 1
    /\ UNCHANGED <<users, records, issued, spent, lastResp>>

\* Every response that sets a refresh cookie also returns an access token signed
\* for the same user in the same second.
AccessOf(rt) == Jwt("access", rt.userId, rt.email, rt.iat, rt.iat + JwtAccessLifetime)
issuedAccess == {AccessOf(rt) : rt \in issued}
\* tokens a request may carry in its refreshToken cookie: nothing, a string
\* that is no JWT, or any token some response has handed out
Presentable == issued \cup issuedAccess \cup {NoToken, Garbage}

SInit ==
    /\ now = 0
    /\ steps = 0
    /\ users = {}
    /\ records = {}
    /\ issued = {}
    /\ spent = {}
    /\ lastResp = NoResponse

PInit ==
    /\ pc = [p \in Procs |-> "idle"]
    /\ loc = [p \in Procs |-> IdleLoc]
    /\ resp = [p \in Procs |-> NoResponse]

\* -------------------------------------------------------------- the client
\* the Authorization header: absent, `Bearer ${undefined}`, or Bearer <token n>
NoAuth          == 0
BearerUndefined == 0 - 1
Reqs  == 1..MaxReqs
Calls == 1..MaxCalls
NoCall == [state |-> "unused", outcome |-> "none", token |-> NoAuth]
NoReq  == [state |-> "unused", retry |-> FALSE, hdr |-> NoAuth, awaited |-> 0, epoch |-> 0]

CInit ==
    /\ mounted = FALSE
    /\ userState = "null"
    /\ authHeader = NoAuth
    /\ authCache = "empty"
    /\ noteValue = FALSE
    /\ refreshPromise = 0
    /\ calls = [c \in Calls |-> NoCall]
    /\ reqs = [r \in Reqs |-> NoReq]
    /\ nextTok = 1
    /\ expiredUpTo = 0
    /\ startup = "idle"

\* ---------------------------------------------------------- the Access Guard
\* the Authorization header of a request: absent, a value without "Bearer ",
\* or "Bearer " followed by a token (NoToken: by nothing)
AuthorizationHeader(scheme, tok) == [scheme |-> scheme, tok |-> tok]
MissingHeader == AuthorizationHeader("missing", NoToken)
NotCalled == [status |-> 0, next |-> FALSE, user |-> NoToken, message |-> ""]
UnauthorizedMsg == "Unauthorized"

\* authMiddleware: req.headers.authorization.split("Bearer ")[1], jwt.verify
\* with the access secret; every throw ends in res.status(401)
\* a guard that lets a token through only while its user holds a session
authMiddlewareWithSession(h) ==
    IF /\ h.scheme = "bearer" /\ h.tok # NoToken /\ jwtVerify(h.tok, "access")
       /\ RecordsOfUser(h.tok.userId) # {}
    THEN [status |-> 0, next |-> TRUE, user |-> h.tok, message |-> ""]
    ELSE [status |-> 401, next |-> FALSE, user |-> NoToken, message |-> UnauthorizedMsg]
\* a guard whose answer tells why the token was refused
authMiddlewareVerbose(h) ==
    IF h.scheme = "bearer" /\ h.tok # NoToken /\ jwtVerify(h.tok, "access")
    THEN [status |-> 0, next |-> TRUE, user |-> h.tok, message |-> ""]
    ELSE [status |-> 401, next |-> FALSE, user |-> NoToken,
          message |-> IF h.scheme = "bearer" /\ h.tok.kind = "access"
                      THEN "jwt expired" ELSE UnauthorizedMsg]
authMiddleware(h) ==
    IF h.scheme = "bearer" /\ h.tok # NoToken /\ jwtVerify(h.tok, "access")
    THEN [status |-> 0, next |-> TRUE, user |-> h.tok, message |-> ""]
    ELSE [status |-> 401, next |-> FALSE, user |-> NoToken, message |-> UnauthorizedMsg]

GInit ==
    /\ header = MissingHeader
    /\ guard = NotCalled

LInit == logoutMutation = "idle"

Init == SInit /\ PInit /\ CInit /\ GInit /\ LInit
vars == <<svars, pvars, cvars, gvars, lvars>>
Next ==
    \/ /\ \E e \in Emails, n \in Usernames, p \in SignupPasswords, d \in DevInputs :
             Signup(e, n, p, d)
       /\ UNCHANGED <<pvars, cvars, gvars, lvars>>
    \/ /\ \E i \in Identifiers, p \in LoginPasswords, d \in DevInputs : Login(i, p, d)
       /\ UNCHANGED <<pvars, cvars, gvars, lvars>>
    \/ /\ \E t \in Presentable, d \in DevInputs : Logout(t, d)
       /\ UNCHANGED <<pvars, cvars, gvars, lvars>>
    \/ /\ \E t \in Presentable, d \in DevInputs : Refresh(t, d)
       /\ UNCHANGED <<pvars, cvars, gvars, lvars>>
    \/ /\ \E d \in Jumps : Tick(d)
       /\ UNCHANGED <<pvars, cvars, gvars, lvars>>

Spec == Init /\ [][Next]_vars

\* SpecShort: the requests of Spec in shorter runs, for the properties that
\* compare a step against the handler applied to every input
ShortNext == steps < MaxShortSteps /\ Next
SpecShort == Init /\ [][ShortNext]_vars

\* ======================================================================
\* SpecConc: the server with two requests in flight.  A handler gives up
\* control at every await; the code between two awaits runs without
\* interruption.  /login and /refresh-token are split at their store accesses.
\* ======================================================================
Respond(p, r) ==
    /\ resp' = [resp EXCEPT ![p] = r]
    /\ pc' = [pc EXCEPT ![p] = "done"]
FailP(p, op, message) ==
    Respond(p, Response(op, NoDeviceHeader, FALSE, 200, message, NoToken, NoUser,
                        NoToken, FALSE))

\* /refresh-token up to its first await: the cookie, the device header and
\* jwt.verify
StartRefresh(p, tok, dev) ==
    /\ pc[p] \in {"idle", "done"}
    /\ steps < MaxConcSteps
    /\ loc' = [loc EXCEPT ![p] = [IdleLoc EXCEPT !.op = "refresh", !.tok = tok, !.dev = dev]]
    /\ IF tok = NoToken THEN FailP(p, "refresh", InvalidRefreshMsg)
       ELSE IF dev = NoDeviceHeader THEN FailP(p, "refresh", JsonParseMsg)
       ELSE IF ~jwtVerify(tok, "refresh") THEN FailP(p, "refresh", ReferenceErrorMsg)
       ELSE /\ pc' = [pc EXCEPT ![p] = "rfFind"]
            /\ UNCHANGED resp
    /\ UNCHANGED svars

\* await RefreshTokenModel.findOne({ user: payload.userId, "deviceInfo.deviceId" })
RfFind(p) ==
    /\ pc[p] = "rfFind"
    /\ IF RecordsOf(loc[p].tok.userId, loc[p].dev) = {}
       THEN /\ FailP(p, "refresh", InvalidRefreshMsg)
            /\ UNCHANGED loc
       ELSE \E token \in RecordsOf(loc[p].tok.userId, loc[p].dev) :
            /\ loc' = [loc EXCEPT ![p].token = token]
            /\ pc' = [pc EXCEPT ![p] = "rfCheck"]
            /\ UNCHANGED resp
    /\ UNCHANGED svars

\* await UserModel.findById, compareSync, the expiry check, the two jwt.sign
\* calls and await bcryptjs.hash
RfCheck(p) ==
    /\ pc[p] = "rfCheck"
    /\ LET token == loc[p].token
           tok   == loc[p].tok
       IN IF ~\E u \in users : u.id = token.user
          THEN /\ records' = records \ RecordsOfUser(token.user)
               /\ FailP(p, "refresh", UserNotFoundMsg)
               /\ UNCHANGED loc
          ELSE IF ~compareSync(tok, token.token)
          THEN FailP(p, "refresh", InvalidRefreshMsg) /\ UNCHANGED <<loc, records>>
          ELSE IF token.expiresAt < now
          THEN FailP(p, "refresh", ReferenceErrorMsg) /\ UNCHANGED <<loc, records>>
          ELSE LET user == CHOOSE u \in users : u.id = token.user
               IN /\ loc' = [loc EXCEPT ![p].uid = user.id,
                                        ![p].accessToken = signJwtAccess(tok.userId, tok.email),
                                        ![p].refreshToken = signJwtRefresh(user.id, user.email)]
                  /\ pc' = [pc EXCEPT ![p] = "rfDelete"]
                  /\ UNCHANGED <<resp, records>>
    /\ UNCHANGED <<now, steps, users, issued, spent, lastResp>>

\* await RefreshTokenModel.deleteMany({ user: user._id, "deviceInfo.deviceId" })
RfDelete(p) ==
    /\ pc[p] = "rfDelete"
    /\ records' = records \ RefreshDeleteMany(loc[p].uid, loc[p].dev)
    /\ pc' = [pc EXCEPT ![p] = "rfCreate"]
    /\ UNCHANGED <<now, steps, users, issued, spent, lastResp, loc, resp>>

\* await RefreshTokenModel.create(..), res.cookie(..), res.status(200).json(..)
RfCreate(p) ==
    /\ pc[p] = "rfCreate"
    /\ records' = records \cup
           {RefreshTokenRecord(FreshRid, bcryptHash(loc[p].refreshToken, FreshRid),
                               loc[p].uid, loc[p].dev)}
    /\ issued' = issued \cup {loc[p].refreshToken}
    /\ spent' = spent \cup {<<loc[p].tok, loc[p].dev>>}
    /\ steps' = steps + 1
    /\ Respond(p, Response("refresh", loc[p].dev, TRUE, 200, "", loc[p].accessToken,
                           UserById(loc[p].uid), loc[p].refreshToken, FALSE))
    /\ UNCHANGED <<now, users, lastResp, loc>>

\* /login up to its first store write: the user lookup, the password check, the
\* two jwt.sign calls, await bcryptjs.hash and the device header
StartLogin(p, usernameOrEmail, password, dev) ==
    /\ pc[p] \in {"idle", "done"}
    /\ steps < MaxConcSteps
    /\ LET found == {u \in users : u.email = usernameOrEmail \/ u.username = usernameOrEmail}
           l0    == [IdleLoc EXCEPT !.op = "login", !.dev = dev]
       IN IF ~LoginInputValid(usernameOrEmail, password)
          THEN FailP(p, "login", InvalidInputMsg) /\ loc' = [loc EXCEPT ![p] = l0]
          ELSE IF found = {}
          THEN FailP(p, "login", NoSuchUserMsg) /\ loc' = [loc EXCEPT ![p] = l0]
          ELSE \E userInDb \in found :
            IF ~comparePassword(password, userInDb.password)
            THEN FailP(p, "login", BadPasswordMsg) /\ loc' = [loc EXCEPT ![p] = l0]
            ELSE IF dev = NoDeviceHeader
            THEN FailP(p, "login", JsonParseMsg) /\ loc' = [loc EXCEPT ![p] = l0]
            ELSE /\ loc' = [loc EXCEPT ![p] =
                       [l0 EXCEPT !.uid = userInDb.id, !.email = userInDb.email,
                                  !.accessToken = signJwtAccess(userInDb.id, userInDb.email),
                                  !.refreshToken = signJwtRefresh(userInDb.id, userInDb.email)]]
                 /\ pc' = [pc EXCEPT ![p] = "lgDelete"]
                 /\ UNCHANGED resp
    /\ UNCHANGED svars

\* await RefreshTokenModel.deleteMany({ user: userInDb._id, "deviceInfo.deviceId" })
LgDelete(p) ==
    /\ pc[p] = "lgDelete"
    /\ records' = records \ LoginDeleteMany(loc[p].uid, loc[p].dev)
    /\ pc' = [pc EXCEPT ![p] = "lgCreate"]
    /\ UNCHANGED <<now, steps, users, issued, spent, lastResp, loc, resp>>

\* await RefreshTokenModel.create(..), res.cookie(..), res.status(201).json(..)
LgCreate(p) ==
    /\ pc[p] = "lgCreate"
    /\ records' = records \cup
           {RefreshTokenRecord(FreshRid, bcryptHash(loc[p].refreshToken, FreshRid),
                               loc[p].uid, loc[p].dev)}
    /\ issued' = issued \cup {loc[p].refreshToken}
    /\ steps' = steps + 1
    /\ Respond(p, Response("login", loc[p].dev, TRUE, 201, "", loc[p].accessToken,
                           UserById(loc[p].uid), loc[p].refreshToken, FALSE))
    /\ UNCHANGED <<now, users, spent, lastResp, loc>>

\* /signup up to its first store read: the device header, the input check and
\* await UserModel.exists({ email })
StartSignup(p, email, username, password, dev) ==
    /\ pc[p] \in {"idle", "done"}
    /\ steps < MaxConcSteps
    /\ loc' = [loc EXCEPT ![p] = [IdleLoc EXCEPT !.op = "signup", !.dev = dev,
                                  !.email = email, !.username = username,
                                  !.password = password]]
    /\ IF dev = NoDeviceHeader THEN FailP(p, "signup", JsonParseMsg)
       ELSE IF ~emailRegExpTest(email) THEN FailP(p, "signup", InvalidInputMsg)
       ELSE IF \E u \in users : u.email = email THEN FailP(p, "signup", EmailExistsMsg)
       ELSE /\ pc' = [pc EXCEPT ![p] = "sgName"]
            /\ UNCHANGED resp
    /\ UNCHANGED svars

\* await UserModel.exists({ username })
SgName(p) ==
    /\ pc[p] = "sgName"
    /\ IF \E u \in users : u.username = loc[p].username
       THEN FailP(p, "signup", NameExistsMsg)
       ELSE /\ pc' = [pc EXCEPT ![p] = "sgUser"]
            /\ UNCHANGED resp
    /\ UNCHANGED <<svars, loc>>

\* await bcryptjs.hash(password, 10), await UserModel.create(..), the two
\* jwt.sign calls and await bcryptjs.hash(refreshToken, 10)
SgUser(p) ==
    /\ pc[p] = "sgUser"
    /\ LET uid == Cardinality(users) + 1
       IN /\ users' = users \cup
                 {[id |-> uid, email |-> loc[p].email, username |-> loc[p].username,
                   password |-> hashPassword(loc[p].password, uid)]}
          /\ loc' = [loc EXCEPT ![p].uid = uid,
                                ![p].accessToken = signJwtAccess(uid, loc[p].email),
                                ![p].refreshToken = signJwtRefresh(uid, loc[p].email)]
    /\ pc' = [pc EXCEPT ![p] = "sgDelete"]
    /\ UNCHANGED <<now, steps, records, issued, spent, lastResp, resp>>

\* await RefreshTokenModel.deleteMany({ user: user._id })
SgDelete(p) ==
    /\ pc[p] = "sgDelete"
    /\ records' = records \ SignupDeleteMany(loc[p].uid)
    /\ pc' = [pc EXCEPT ![p] = "sgCreate"]
    /\ UNCHANGED <<now, steps, users, issued, spent, lastResp, loc, resp>>

\* await RefreshTokenModel.create(..), res.cookie(..), res.status(201).json(..)
SgCreate(p) ==
    /\ pc[p] = "sgCreate"
    /\ records' = records \cup
           {RefreshTokenRecord(FreshRid, bcryptHash(loc[p].refreshToken, FreshRid),
                               loc[p].uid, loc[p].dev)}
    /\ issued' = issued \cup {loc[p].refreshToken}
    /\ steps' = steps + 1
    /\ Respond(p, Response("signup", loc[p].dev, TRUE, 201, "", loc[p].accessToken,
                           UserById(loc[p].uid), loc[p].refreshToken, FALSE))
    /\ UNCHANGED <<now, users, spent, lastResp, loc>>

\* the requests of SpecConc: one account, its refresh tokens, both devices
ConcEmails    == {"a@b.co"}
ConcUsernames == {"alice"}
ConcTokens    == issued \cup {NoToken}

ConcNext ==
    \/ (\E p \in Procs, e \in ConcEmails, n \in ConcUsernames, w \in SignupPasswords,
             d \in Devices : StartSignup(p, e, n, w, d)) /\ UNCHANGED <<cvars, gvars, lvars>>
    \/ (\E p \in Procs : SgName(p)) /\ UNCHANGED <<cvars, gvars, lvars>>
    \/ (\E p \in Procs : SgUser(p)) /\ UNCHANGED <<cvars, gvars, lvars>>
    \/ (\E p \in Procs : SgDelete(p)) /\ UNCHANGED <<cvars, gvars, lvars>>
    \/ (\E p \in Procs : SgCreate(p)) /\ UNCHANGED <<cvars, gvars, lvars>>
    \/ (\E p \in Procs, t \in ConcTokens, d \in Devices : StartRefresh(p, t, d))
          /\ UNCHANGED <<cvars, gvars, lvars>>
    \/ (\E p \in Procs : RfFind(p)) /\ UNCHANGED <<cvars, gvars, lvars>>
    \/ (\E p \in Procs : RfCheck(p)) /\ UNCHANGED <<cvars, gvars, lvars>>
    \/ (\E p \in Procs : RfDelete(p)) /\ UNCHANGED <<cvars, gvars, lvars>>
    \/ (\E p \in Procs : RfCreate(p)) /\ UNCHANGED <<cvars, gvars, lvars>>
    \/ (\E p \in Procs, i \in ConcEmails, w \in Passwords, d \in Devices :
          StartLogin(p, i, w, d)) /\ UNCHANGED <<cvars, gvars, lvars>>
    \/ (\E p \in Procs : LgDelete(p)) /\ UNCHANGED <<cvars, gvars, lvars>>
    \/ (\E p \in Procs : LgCreate(p)) /\ UNCHANGED <<cvars, gvars, lvars>>
    \* /logout, sent once the requests in flight have been answered
    \/ /\ \A p \in Procs : pc[p] = "done"
       /\ \E t \in issued, d \in Devices : Logout(t, d)
       /\ UNCHANGED <<pvars, cvars, gvars, lvars>>

SpecConc == Init /\ [][ConcNext]_vars

\* ======================================================================
\* SpecCrash: the requests of one account, one at a time, where one /refresh-token or
\* /login request is interrupted between its deleteMany and its create (the
\* server process stops, or the connection to the store is lost): the
\* deleteMany has reached the store, the create and the response never happen.
\* ======================================================================
CrashProc == 1
InFlight(p) == pc[p] \notin {"idle", "done", "crashed"}

\* the handler stops after await RefreshTokenModel.deleteMany(..) and before
\* await RefreshTokenModel.create(..)
Crash(p) ==
    /\ pc[p] \in {"rfCreate", "lgCreate"}
    /\ pc' = [pc EXCEPT ![p] = "crashed"]
    /\ UNCHANGED <<svars, loc, resp>>

\* tokens a later request may carry: those some response has handed out.  The
\* token the interrupted request had signed was never sent, so no client holds
\* it unless a response signed in the same second carried the same string.
CrashTokens == Presentable

\* clock advances: the next hour
CrashJumps == {1}

CrashNext ==
    \* a request that runs to its end, or a clock advance
    \/ /\ ~InFlight(CrashProc)
       /\ \E e \in ConcEmails, n \in ConcUsernames, w \in SignupPasswords,
              d \in Devices : Signup(e, n, w, d)
       /\ UNCHANGED <<pvars, cvars, gvars, lvars>>
    \/ /\ ~InFlight(CrashProc)
       /\ \E i \in ConcEmails, w \in Passwords, d \in Devices : Login(i, w, d)
       /\ UNCHANGED <<pvars, cvars, gvars, lvars>>
    \/ /\ ~InFlight(CrashProc)
       /\ \E t \in issued, d \in Devices : Logout(t, d)
       /\ UNCHANGED <<pvars, cvars, gvars, lvars>>
    \/ /\ ~InFlight(CrashProc)
       /\ \E t \in CrashTokens, d \in Devices : Refresh(t, d)
       /\ UNCHANGED <<pvars, cvars, gvars, lvars>>
    \/ /\ ~InFlight(CrashProc)
       /\ \E d \in CrashJumps : Tick(d)
       /\ UNCHANGED <<pvars, cvars, gvars, lvars>>
    \* the request that is interrupted
    \/ (\E t \in issued, d \in Devices : StartRefresh(CrashProc, t, d))
          /\ UNCHANGED <<cvars, gvars, lvars>>
    \/ RfFind(CrashProc) /\ UNCHANGED <<cvars, gvars, lvars>>
    \/ RfCheck(CrashProc) /\ UNCHANGED <<cvars, gvars, lvars>>
    \/ RfDelete(CrashProc) /\ UNCHANGED <<cvars, gvars, lvars>>
    \/ (\E i \in ConcEmails, w \in Passwords, d \in Devices :
          StartLogin(CrashProc, i, w, d)) /\ UNCHANGED <<cvars, gvars, lvars>>
    \/ LgDelete(CrashProc) /\ UNCHANGED <<cvars, gvars, lvars>>
    \/ Crash(CrashProc) /\ UNCHANGED <<cvars, gvars, lvars>>

SpecCrash == Init /\ [][CrashNext]_vars

\* ======================================================================
\* SpecStore: the requests to the Auth Service, one at a time, together with
\* the routes that do not belong to it: GET /me and the notes routes behind
\* authMiddleware.
\* ======================================================================
\* Authorization headers a request may carry: none, or "Bearer " followed by
\* an access token some response returned or by a string that is no JWT
StoreHeaders ==
    {MissingHeader} \cup
        {AuthorizationHeader("bearer", t) : t \in issuedAccess \cup {Garbage}}

\* GET /me: the handler verifies the Bearer token itself and answers 200 with
\* either { email } or { message }; it reads the users collection only
me(h) ==
    IF h.scheme = "bearer" /\ h.tok # NoToken /\ jwtVerify(h.tok, "access")
          /\ \E u \in users : u.id = h.tok.userId
    THEN [status |-> 200, next |-> FALSE, user |-> h.tok, message |-> ""]
    ELSE [status |-> 200, next |-> FALSE, user |-> NoToken, message |-> "jwt error"]
Me(h) ==
    /\ header' = h
    /\ guard' = me(h)
    /\ UNCHANGED <<svars, pvars, cvars, lvars>>

\* a notes route: authMiddleware, then a handler that reads the users
\* collection and reads or writes the notes collection
Notes(h) ==
    /\ header' = h
    /\ guard' = authMiddleware(h)
    /\ UNCHANGED <<svars, pvars, cvars, lvars>>

\* the requests to the Auth Service: two accounts, both devices, right and
\* wrong passwords, every token a response has handed out
StoreEmails == {"a@b.co", "c@d.co"}
StoreTokens == issued \cup issuedAccess \cup {NoToken}
\* clock advances: the next hour; just past a stored record's expiresAt
StoreJumps  == {1, RecordLifetime + 1}

StoreNext ==
    \/ /\ steps < MaxShortSteps
       /\ \E e \in StoreEmails, n \in Usernames, w \in SignupPasswords, d \in Devices :
             Signup(e, n, w, d)
       /\ UNCHANGED <<pvars, cvars, gvars, lvars>>
    \/ /\ steps < MaxShortSteps
       /\ \E i \in StoreEmails, w \in Passwords, d \in Devices : Login(i, w, d)
       /\ UNCHANGED <<pvars, cvars, gvars, lvars>>
    \/ /\ steps < MaxShortSteps
       /\ \E t \in StoreTokens, d \in Devices : Logout(t, d)
       /\ UNCHANGED <<pvars, cvars, gvars, lvars>>
    \/ /\ steps < MaxShortSteps
       /\ \E t \in StoreTokens, d \in Devices : Refresh(t, d)
       /\ UNCHANGED <<pvars, cvars, gvars, lvars>>
    \/ /\ steps < MaxShortSteps
       /\ \E d \in StoreJumps : Tick(d)
       /\ UNCHANGED <<pvars, cvars, gvars, lvars>>
    \/ \E h \in StoreHeaders : Me(h)
    \/ \E h \in StoreHeaders : Notes(h)

SpecStore == Init /\ [][StoreNext]_vars

\* ======================================================================
\* SpecChain: well-formed requests of two accounts, one after the other, in
\* runs as long as those of Spec, for the properties of a sequence of rotations.
\* ======================================================================
ChainNext ==
    \/ /\ \E e \in StoreEmails, n \in Usernames, w \in SignupPasswords, d \in Devices :
             Signup(e, n, w, d)
       /\ UNCHANGED <<pvars, cvars, gvars, lvars>>
    \/ /\ \E i \in StoreEmails, w \in Passwords, d \in Devices : Login(i, w, d)
       /\ UNCHANGED <<pvars, cvars, gvars, lvars>>
    \/ /\ \E t \in issued, d \in Devices : Logout(t, d)
       /\ UNCHANGED <<pvars, cvars, gvars, lvars>>
    \/ /\ \E t \in Presentable, d \in Devices : Refresh(t, d)
       /\ UNCHANGED <<pvars, cvars, gvars, lvars>>
    \/ /\ \E d \in StoreJumps : Tick(d)
       /\ UNCHANGED <<pvars, cvars, gvars, lvars>>

SpecChain == Init /\ [][ChainNext]_vars

\* ======================================================================
\* SpecSignup: signup receives what the handler does not check: any non-blank
\* username, including one that has the form of an email address, and an
\* x-device-info header of any JSON shape.
\* ======================================================================
SignupNames == Usernames \cup StoreEmails
SignupDevices == Devices \cup {BadDeviceInfo}
NameIdentifiers == StoreEmails \cup Usernames

SignupNext ==
    \/ /\ steps < MaxShortSteps
       /\ \E e \in StoreEmails, n \in SignupNames, w \in SignupPasswords,
             d \in SignupDevices : Signup(e, n, w, d)
       /\ UNCHANGED <<pvars, cvars, gvars, lvars>>
    \/ /\ steps < MaxShortSteps
       /\ \E i \in NameIdentifiers, w \in Passwords, d \in Devices : Login(i, w, d)
       /\ UNCHANGED <<pvars, cvars, gvars, lvars>>
    \/ /\ steps < MaxShortSteps
       /\ \E t \in issued, d \in Devices : Logout(t, d)
       /\ UNCHANGED <<pvars, cvars, gvars, lvars>>
    \/ /\ steps < MaxShortSteps
       /\ \E t \in issued, d \in Devices : Refresh(t, d)
       /\ UNCHANGED <<pvars, cvars, gvars, lvars>>
    \/ /\ steps < MaxShortSteps
       /\ \E d \in CrashJumps : Tick(d)
       /\ UNCHANGED <<pvars, cvars, gvars, lvars>>

SpecSignup == Init /\ [][SignupNext]_vars

\* ======================================================================
\* SpecClient: one browser tab.  JavaScript runs one task at a time: the code
\* between two awaits is one step.  The server is reduced to what the tab can
\* observe: /refresh-token answers 200 with a new access token, 200 with the
\* failure envelope, or not at all (transport error); a protected route
\* answers 401 unless the request carries an access token that verifies.
\* ======================================================================
\* useIsFetching({ queryKey: ["auth"] }): both ["auth"] and ["auth", "refresh"]
Outstanding == {c \in Calls : calls[c].state = "outstanding"}
\* refreshes whose own response handler waits on refreshPromise
Blocked == {c \in Calls : calls[c].state = "blocked"}
isFetchingAuth == startup = "outstanding" \/ Outstanding # {} \/ Blocked # {}
\* interceptor refreshes that have settled so far
settled == Cardinality({c \in Calls : calls[c].state = "settled"})
isLoggedIn == userState = "profile"
FreshCall == CHOOSE c \in Calls : calls[c].state = "unused" /\
                 \A d \in Calls : calls[d].state = "unused" => c <= d
FreshReq == CHOOSE r \in Reqs : reqs[r].state = "unused" /\
                 \A q \in Reqs : reqs[q].state = "unused" => r <= q
\* authMiddleware: jwt.verify of the Bearer token
authMiddlewareAccepts(hdr) == hdr > expiredUpTo
\* the body of a /refresh-token answer
RefreshOutcomes == {"ok", "envelope", "error"}
DataAccessToken(outcome, tok) == IF outcome = "ok" THEN tok ELSE BearerUndefined
\* a body that always carries a profile
DataUserAlways(outcome) == "profile"
\* data.user
DataUser(outcome) == IF outcome = "ok" THEN "profile" ELSE "undefined"

\* AuthProvider's effect: setupInterceptors, then fetchQuery(["auth"])
AppStart ==
    /\ ~mounted
    /\ mounted' = TRUE
    /\ startup' = "outstanding"
    /\ UNCHANGED <<userState, authHeader, authCache, noteValue, refreshPromise,
                   calls, reqs, nextTok, expiredUpTo>>

\* the answer to the start-up refresh and the .then / .catch of the effect
StartupSettle(outcome) ==
    /\ startup = "outstanding"
    /\ outcome = "ok" => nextTok <= MaxTokens
    /\ startup' = "settled"
    /\ nextTok' = IF outcome = "ok" THEN nextTok + 1 ELSE nextTok
    /\ IF outcome = "error"
       THEN UNCHANGED <<authHeader, userState, authCache>>
       ELSE /\ authHeader' = DataAccessToken(outcome, nextTok)
            /\ userState' = DataUser(outcome)
            /\ authCache' = "data"
    /\ UNCHANGED <<mounted, noteValue, refreshPromise, calls, reqs, expiredUpTo>>

\* useLogin / useSignUp onSuccess, from the LoginRegisterScreen
LoginSuccess ==
    /\ mounted /\ ~isFetchingAuth /\ ~isLoggedIn
    /\ nextTok <= MaxTokens
    /\ authHeader' = nextTok
    /\ nextTok' = nextTok + 1
    /\ userState' = "profile"
    /\ UNCHANGED <<mounted, authCache, noteValue, refreshPromise, calls, reqs,
                   expiredUpTo, startup>>

\* useLogout onSuccess, from the main view
LogoutSuccess ==
    /\ mounted /\ ~isFetchingAuth /\ isLoggedIn
    /\ userState' = "null"
    /\ authHeader' = NoAuth
    /\ UNCHANGED <<mounted, authCache, noteValue, refreshPromise, calls, reqs,
                   nextTok, expiredUpTo, startup>>

\* the textarea of the main view: setNote((prev) => ({ ...prev, value }))
TypeNote ==
    /\ mounted /\ ~isFetchingAuth /\ isLoggedIn
    /\ ~noteValue
    /\ noteValue' = TRUE
    /\ UNCHANGED <<mounted, userState, authHeader, authCache, refreshPromise, calls,
                   reqs, nextTok, expiredUpTo, startup>>

\* a protected request leaves the tab: useFetchNotes (enabled: !!user), the
\* buttons of the main view, or the 5 s save timer (if (!note.value) return)
SendRequest ==
    /\ mounted
    /\ \E r \in Reqs : reqs[r].state = "unused"
    /\ isLoggedIn \/ noteValue
    /\ reqs' = [reqs EXCEPT ![FreshReq] = [NoReq EXCEPT !.state = "sent", !.hdr = authHeader]]
    /\ UNCHANGED <<mounted, userState, authHeader, authCache, noteValue, refreshPromise,
                   calls, nextTok, expiredUpTo, startup>>

\* the access tokens issued so far pass their exp
ExpireTokens ==
    /\ expiredUpTo < nextTok - 1
    /\ expiredUpTo' = nextTok - 1
    /\ UNCHANGED <<mounted, userState, authHeader, authCache, noteValue, refreshPromise,
                   calls, reqs, nextTok, startup>>

\* if (!refreshPromise): a handler starts a refresh only when none is pending
StartsRefreshUnguarded == TRUE
StartsRefresh == refreshPromise = 0

\* api.defaults.headers.common["Authorization"] = `Bearer ${newAccess}`
DefaultAuthorizationKept(newAccess) == authHeader
DefaultAuthorization(newAccess) == newAccess

\* original.headers["Authorization"] = `Bearer ${newAccess}` before the replay
ReplayAuthorizationStale(original, newAccess) == original.hdr
ReplayAuthorization(original, newAccess) == newAccess

\* a handler that takes no request for retried
AlreadyRetriedNever(original) == FALSE
\* !original._retry: the flag the handler sets before it awaits the refresh
AlreadyRetried(original) == original.retry

\* the caller's promise settles; _retry stays on the request's config
Settle(r, how) ==
    reqs' = [reqs EXCEPT ![r] = [NoReq EXCEPT !.state = how, !.retry = reqs[r].retry]]

\* a protected request is answered and the response interceptor runs up to
\* its first await
Receive(r, status) ==
    /\ reqs[r].state = "sent"
    /\ status = "200" => authMiddlewareAccepts(reqs[r].hdr)
    /\ status = "401" => ~authMiddlewareAccepts(reqs[r].hdr)
    /\ IF status = "200"
       THEN Settle(r, "resolved") /\ UNCHANGED <<calls, refreshPromise>>
       ELSE IF status # "401" \/ AlreadyRetried(reqs[r])
       THEN Settle(r, "rejected") /\ UNCHANGED <<calls, refreshPromise>>
       ELSE IF StartsRefresh
       THEN /\ \E c \in Calls : calls[c].state = "unused"
            /\ calls' = [calls EXCEPT ![FreshCall] =
                           [NoCall EXCEPT !.state = "outstanding"]]
            /\ refreshPromise' = FreshCall
            /\ reqs' = [reqs EXCEPT ![r] = [@ EXCEPT !.retry = TRUE, !.state = "waiting",
                                             !.awaited = FreshCall, !.epoch = settled]]
       ELSE /\ reqs' = [reqs EXCEPT ![r] = [@ EXCEPT !.retry = TRUE, !.state = "waiting",
                                             !.awaited = refreshPromise, !.epoch = settled]]
            /\ UNCHANGED <<calls, refreshPromise>>
    /\ UNCHANGED <<mounted, userState, authHeader, authCache, noteValue, nextTok,
                   expiredUpTo, startup>>

\* a chain whose .catch leaves refreshPromise set
refreshPromiseKeptOnError(outcome) == IF outcome = "error" THEN refreshPromise ELSE 0
\* .then((data) => { refreshPromise = null; .. }) and
\* .catch((e) => { refreshPromise = null; .. })
refreshPromiseOnSettle(outcome) == 0

\* the answer to the interceptor's refresh and the .then / .catch chained on
\* fetchQuery, which clear refreshPromise
RefreshSettle(outcome) ==
    \E c \in Outstanding :
    /\ outcome = "ok" => nextTok <= MaxTokens
    /\ calls' = [calls EXCEPT ![c] = [@ EXCEPT !.state = "settled", !.outcome = outcome,
                                       !.token = DataAccessToken(outcome, nextTok)]]
    /\ nextTok' = IF outcome = "ok" THEN nextTok + 1 ELSE nextTok
    /\ refreshPromise' = refreshPromiseOnSettle(outcome)
    /\ UNCHANGED <<mounted, userState, authHeader, authCache, noteValue, reqs,
                   expiredUpTo, startup>>

\* a handler continues after `await refreshPromise`
Resume(r) ==
    /\ reqs[r].state = "waiting"
    /\ calls[reqs[r].awaited].state = "settled"
    /\ LET data == calls[reqs[r].awaited]
       IN IF data.outcome = "error"
          THEN /\ authCache' = "empty"
               /\ Settle(r, "rejected")
               /\ UNCHANGED authHeader
          ELSE LET newAccess == data.token
               IN /\ authHeader' = DefaultAuthorization(newAccess)
                  /\ authCache' = "data"
                  /\ reqs' = [reqs EXCEPT ![r] =
                         [@ EXCEPT !.state = "sent", !.epoch = 0,
                                   !.hdr = ReplayAuthorization(reqs[r], newAccess)]]
    /\ UNCHANGED <<mounted, userState, noteValue, refreshPromise, calls, nextTok,
                   expiredUpTo, startup>>

Statuses == {"200", "401", "error"}

ClientNext ==
    \/ AppStart /\ UNCHANGED <<svars, pvars, gvars, lvars>>
    \/ (\E o \in RefreshOutcomes : StartupSettle(o)) /\ UNCHANGED <<svars, pvars, gvars, lvars>>
    \/ LoginSuccess /\ UNCHANGED <<svars, pvars, gvars, lvars>>
    \/ LogoutSuccess /\ UNCHANGED <<svars, pvars, gvars, lvars>>
    \/ TypeNote /\ UNCHANGED <<svars, pvars, gvars, lvars>>
    \/ SendRequest /\ UNCHANGED <<svars, pvars, gvars, lvars>>
    \/ ExpireTokens /\ UNCHANGED <<svars, pvars, gvars, lvars>>
    \/ (\E r \in Reqs, st \in Statuses : Receive(r, st)) /\ UNCHANGED <<svars, pvars, gvars, lvars>>
    \/ (\E o \in RefreshOutcomes : RefreshSettle(o)) /\ UNCHANGED <<svars, pvars, gvars, lvars>>
    \/ (\E r \in Reqs : Resume(r)) /\ UNCHANGED <<svars, pvars, gvars, lvars>>

SpecClient == Init /\ [][ClientNext]_vars

\* ======================================================================
\* SpecLogout: the tab of SpecClient with its logout button.  useLogout posts
\* /logout; the server answers 200 with ok true, 200 with the failure
\* envelope, or not at all.
\* ======================================================================
LogoutOutcomes == {"ok", "envelope", "error"}
\* a mutationFn that returns every body it receives
logoutThrowsOnErrorOnly(outcome) == outcome = "error"
\* mutationFn: the rejection of api.post, or if (!res.data.ok) throw
logoutThrows(outcome) == outcome # "ok"

\* handleLogout: logoutMutation.mutate()
handleLogout ==
    /\ mounted /\ ~isFetchingAuth /\ isLoggedIn
    /\ logoutMutation # "pending"
    /\ logoutMutation' = "pending"
    /\ UNCHANGED cvars

\* the answer to POST /logout: onError shows a toast; onSuccess calls
\* handleSaveUser(null) and deletes the default Authorization header
LogoutSettle(outcome) ==
    /\ logoutMutation = "pending"
    /\ IF logoutThrows(outcome)
       THEN /\ logoutMutation' = "error"
            /\ UNCHANGED <<userState, authHeader>>
       ELSE /\ logoutMutation' = "success"
            /\ userState' = "null"
            /\ authHeader' = NoAuth
    /\ UNCHANGED <<mounted, authCache, noteValue, refreshPromise, calls, reqs,
                   nextTok, expiredUpTo, startup>>

LogoutNext ==
    \/ AppStart /\ UNCHANGED <<svars, pvars, gvars, lvars>>
    \/ (\E o \in RefreshOutcomes : StartupSettle(o)) /\ UNCHANGED <<svars, pvars, gvars, lvars>>
    \/ LoginSuccess /\ UNCHANGED <<svars, pvars, gvars, lvars>>
    \/ SendRequest /\ UNCHANGED <<svars, pvars, gvars, lvars>>
    \/ ExpireTokens /\ UNCHANGED <<svars, pvars, gvars, lvars>>
    \/ (\E r \in Reqs, st \in Statuses : Receive(r, st)) /\ UNCHANGED <<svars, pvars, gvars, lvars>>
    \/ (\E o \in RefreshOutcomes : RefreshSettle(o)) /\ UNCHANGED <<svars, pvars, gvars, lvars>>
    \/ (\E r \in Reqs : Resume(r)) /\ UNCHANGED <<svars, pvars, gvars, lvars>>
    \/ handleLogout /\ UNCHANGED <<svars, pvars, gvars>>
    \/ (\E o \in LogoutOutcomes : LogoutSettle(o)) /\ UNCHANGED <<svars, pvars, gvars>>

SpecLogout == Init /\ [][LogoutNext]_vars

\* ======================================================================
\* SpecLive: the tab of SpecClient where the interceptor's /refresh-token
\* call may also be answered 401, with every call answered and every
\* handler continued eventually.
\* ======================================================================
\* refreshRequest goes through api, so its 401 reaches the same interceptor:
\* _retry is not set on it and refreshPromise is the promise of this very
\* call, so the handler awaits the promise that its own return would settle
RefreshUnauthorized ==
    \E c \in Outstanding :
    /\ refreshPromise = c
    /\ calls' = [calls EXCEPT ![c] = [@ EXCEPT !.state = "blocked", !.outcome = "401"]]
    /\ UNCHANGED <<mounted, userState, authHeader, authCache, noteValue, refreshPromise,
                   reqs, nextTok, expiredUpTo, startup>>

LiveNext ==
    \/ AppStart /\ UNCHANGED <<svars, pvars, gvars, lvars>>
    \/ (\E o \in RefreshOutcomes : StartupSettle(o)) /\ UNCHANGED <<svars, pvars, gvars, lvars>>
    \/ LoginSuccess /\ UNCHANGED <<svars, pvars, gvars, lvars>>
    \/ SendRequest /\ UNCHANGED <<svars, pvars, gvars, lvars>>
    \/ ExpireTokens /\ UNCHANGED <<svars, pvars, gvars, lvars>>
    \/ (\E r \in Reqs, st \in Statuses : Receive(r, st)) /\ UNCHANGED <<svars, pvars, gvars, lvars>>
    \/ (\E o \in RefreshOutcomes : RefreshSettle(o)) /\ UNCHANGED <<svars, pvars, gvars, lvars>>
    \/ RefreshUnauthorized /\ UNCHANGED <<svars, pvars, gvars, lvars>>
    \/ (\E r \in Reqs : Resume(r)) /\ UNCHANGED <<svars, pvars, gvars, lvars>>

\* every HTTP call receives a response and every handler whose await has
\* settled continues
LiveFairness ==
    /\ WF_vars((\E o \in RefreshOutcomes : StartupSettle(o))
                  /\ UNCHANGED <<svars, pvars, gvars, lvars>>)
    /\ \A r \in Reqs :
          WF_vars((\E st \in Statuses : Receive(r, st))
                    /\ UNCHANGED <<svars, pvars, gvars, lvars>>)
    /\ WF_vars(((\E o \in RefreshOutcomes : RefreshSettle(o)) \/ RefreshUnauthorized)
                  /\ UNCHANGED <<svars, pvars, gvars, lvars>>)
    /\ \A r \in Reqs :
          WF_vars(Resume(r) /\ UNCHANGED <<svars, pvars, gvars, lvars>>)

SpecLive == Init /\ [][LiveNext]_vars /\ LiveFairness

\* ======================================================================
\* SpecGuard: authMiddleware as a function of the Authorization header and
\* the clock.  The header is drawn when the run starts; its token, if any, was
\* signed at time 0 for one of two accounts.
\* ======================================================================
GuardAccounts == {<<1, "a@b.co">>, <<2, "c@d.co">>}
GuardTokens ==
    {signJwtAccess(a[1], a[2]) : a \in GuardAccounts}
        \cup {signJwtRefresh(a[1], a[2]) : a \in GuardAccounts}
        \cup {Garbage, NoToken}
GuardHeaders ==
    {MissingHeader}
        \cup {AuthorizationHeader(sch, t) : sch \in {"other", "bearer"}, t \in GuardTokens}
\* the next hour; to the hour before an access token's exp claim
GuardJumps == {1, JwtAccessLifetime - 1}

GuardInit ==
    /\ SInit /\ PInit /\ CInit /\ LInit
    /\ header \in GuardHeaders
    /\ guard = NotCalled

\* a request to a route behind authMiddleware arrives
GuardRequest ==
    /\ guard' = authMiddleware(header)
    /\ UNCHANGED <<header, svars, pvars, cvars, lvars>>

GuardTick(d) ==
    /\ steps < MaxGuardTicks
    /\ now' = now + d
    /\ steps' = steps + 1
    /\ guard' = NotCalled
    /\ UNCHANGED <<users, records, issued, spent, lastResp, header, pvars, cvars, lvars>>

GuardNext ==
    \/ GuardRequest
    \/ \E d \in GuardJumps : GuardTick(d)

SpecGuard == GuardInit /\ [][GuardNext]_vars

\* ======================================================================
\* Claims checked under Spec, SpecShort and SpecChain (one request at a time)
\* ======================================================================

\* C1 - Sequential single-use rotation: once a refresh presenting token t on
\* device d has succeeded, every later refresh on d that presents t again fails
\* with 'Invalid refresh token!' and returns neither an access token nor a cookie.
C1_SingleUse ==
    [][\A t \in Presentable, d \in Devices :
          (<<t, d>> \in spent /\ Refresh(t, d)) =>
              /\ ~lastResp'.ok
              /\ lastResp'.message = InvalidRefreshMsg
              /\ lastResp'.accessToken = NoToken
              /\ lastResp'.setCookie = NoToken]_svars

\* C3 - With requests executed one at a time, the Session Store holds at most
\* one refresh-token record for every (user, deviceId) pair.
C3_OneRecordPerPair ==
    \A u \in users, d \in Devices : Cardinality(RecordsOf(u.id, d)) <= 1

\* a rotation has replaced a pair's record while another pair holds one too
C3_Witness ==
    /\ lastResp.op = "refresh"
    /\ lastResp.ok
    /\ Cardinality(records) = 2

\* the refresh token whose hash a stored record holds: the one signed for the
\* record's user in the second the record was created
CurrentTokenOf(r) ==
    LET u   == CHOOSE x \in users : x.id = r.user
        iat == r.expiresAt - RecordLifetime
    IN  Jwt("refresh", u.id, u.email, iat, iat + JwtRefreshLifetime)

\* the step is the handling of a request that succeeded
Succeeded(ops) ==
    /\ steps' = steps + 1
    /\ now' = now
    /\ lastResp'.ok
    /\ lastResp'.op \in ops

\* C5 - Device isolation: a successful login, logout or refresh on device B
\* leaves the records of every other device A unchanged, and where a refresh on
\* A with A's current token would have succeeded before the request, it still
\* would after it.
C5_DeviceIsolation ==
    [][Succeeded({"login", "logout", "refresh"}) =>
          \A u \in users, dA \in Devices \ {lastResp'.dev} :
              /\ RecordsOf(u.id, dA)' = RecordsOf(u.id, dA)
              /\ \A r \in RecordsOf(u.id, dA) :
                    RefreshAccepts(CurrentTokenOf(r), dA, r)
                        => RefreshAccepts(CurrentTokenOf(r), dA, r)']_svars

\* one user holds a live session on each device and the latest request was a
\* successful rotation on one of them
C5_Witness ==
    /\ lastResp.op = "refresh"
    /\ lastResp.ok
    /\ \E u \in users : \A d \in Devices :
          \E r \in RecordsOf(u.id, d) : RefreshAccepts(CurrentTokenOf(r), d, r)

\* C6 - A refresh with a validly signed token whose matching stored record has
\* expired fails with 'Refresh token expired! Please login again.' and deletes
\* the record of that (user, device), so that a second refresh with the same
\* token finds no record.
C6_ExpiredRefresh ==
    [][\A t \in Presentable, d \in Devices :
          (/\ jwtVerify(t, "refresh")
           /\ RecordsOf(t.userId, d) # {}
           /\ \A r \in RecordsOf(t.userId, d) :
                 compareSync(t, r.token) /\ r.expiresAt < now
           /\ Refresh(t, d)) =>
              /\ lastResp'.message = ExpiredMsg
              /\ RecordsOf(t.userId, d)' = {}]_svars

\* C7 - A refresh whose cookie token fails signature or expiry verification
\* deletes the requesting device's stored record for that token and fails with
\* 'Invalid refresh token!'.
C7_BadTokenForcesLogout ==
    [][\A t \in Presentable \ {NoToken}, d \in Devices :
          (~jwtVerify(t, "refresh") /\ Refresh(t, d)) =>
              /\ lastResp'.message = InvalidRefreshMsg
              /\ {r \in records' : r.dev = d /\ compareSync(t, r.token)} = {}]_svars

\* C13 - After a successful signup, a login with the same email or username
\* and the same password succeeds and returns an access token different from
\* the one signup returned, however soon after the signup it happens.
C13_LoginTokenDiffers ==
    [][(lastResp.op = "signup" /\ lastResp.ok) =>
          \A i \in Identifiers, p \in Passwords, d \in Devices :
              (/\ i \in {lastResp.user.email, lastResp.user.username}
               /\ comparePassword(p, lastResp.user.password)
               /\ Login(i, p, d))
              => (/\ lastResp'.ok
                  /\ lastResp'.accessToken # lastResp.accessToken)]_svars

\* UserModel.findOne({ $or: [{ email }, { username }] })
Matching(usernameOrEmail) ==
    {u \in users : u.email = usernameOrEmail \/ u.username = usernameOrEmail}
\* p is not the password the account was created with
WrongPassword(p, u) == u.password # hashPassword(p, u.password.salt)
\* the step failed with that message, kept the Session Store and set no cookie
FailedWith(message) ==
    /\ ~lastResp'.ok
    /\ lastResp'.message = message
    /\ records' = records
    /\ lastResp'.setCookie = NoToken
    /\ ~lastResp'.cleared

\* C15 (as stated) - A login with an identifier matching no user fails with
\* the not-found error and a login with a wrong password fails with the
\* invalid-credentials error; neither deletes or creates a refresh-token
\* record or sets a cookie.
C15_LoginFailures ==
    [][lastResp'.op = "login" =>
          \A i \in Identifiers, p \in LoginPasswords, d \in DevInputs :
              Login(i, p, d) =>
                  /\ Matching(i) = {} => FailedWith(NoSuchUserMsg)
                  /\ (/\ Matching(i) # {}
                      /\ \A u \in Matching(i) : WrongPassword(p, u))
                        => FailedWith(BadPasswordMsg)]_svars

\* C15 (amended) - A login whose fields pass the input check (both non-blank,
\* an identifier containing "@" a well-formed email) fails with the not-found
\* error when the identifier matches no user and with the invalid-credentials
\* error when the password is wrong; neither deletes or creates a
\* refresh-token record or sets a cookie.
C15_ValidLoginFailures ==
    [][lastResp'.op = "login" =>
          \A i \in Identifiers, p \in LoginPasswords, d \in DevInputs :
              (/\ LoginInputValid(i, p)
               /\ \A u \in Matching(i) : WrongPassword(p, u)
               /\ Login(i, p, d)) =>
                  /\ Matching(i) = {} => FailedWith(NoSuchUserMsg)
                  /\ Matching(i) # {} => FailedWith(BadPasswordMsg)]_svars

\* a login with a wrong password has failed while a session is stored
C15_Witness ==
    /\ lastResp.op = "login"
    /\ lastResp.message = BadPasswordMsg
    /\ records # {}

\* C18 - For every signup, login and refresh response, successful or not, no
\* field of the JSON body holds a refresh token that was set as a cookie: the
\* raw refresh token leaves the server in the refreshToken cookie only.
C18_RefreshTokenOnlyInCookie ==
    lastResp.op \in {"signup", "login", "refresh"} =>
        /\ jsonBody(lastResp) \cap issued = {}
        /\ lastResp.setCookie \notin jsonBody(lastResp) \ {NoToken}

\* a refresh has rotated the token: its response set the new one as the cookie
C18_Witness ==
    /\ lastResp.op = "refresh"
    /\ lastResp.ok
    /\ lastResp.setCookie \in issued
    /\ lastResp.accessToken = AccessOf(lastResp.setCookie)

\* C19 - In every reachable state the token field of every refresh-token
\* record is not a raw token but the hash of a refresh token that signup, login
\* or refresh issued.
C19_StoredTokensAreHashes ==
    \A r \in records :
        /\ r.token \notin issued
        /\ \E t \in issued : r.token = bcryptHash(t, r.token.salt)

\* a login has stored the record of the token it set as the cookie
C19_Witness ==
    /\ lastResp.op = "login"
    /\ lastResp.ok
    /\ \E r \in records :
          /\ r.dev = lastResp.dev
          /\ r.token = bcryptHash(lastResp.setCookie, r.token.salt)

\* C28 - Every response of /signup, /login, /logout and /refresh-token is one
\* of two envelopes: ok:true together with the effect of the request (a
\* cleared cookie for logout, a new refresh cookie and its access token for
\* the others), or ok:false with a message and nothing else.  A request that
\* fails, whatever the cause, is therefore answered ok:false with a message.
C28_FailureEnvelope ==
    lastResp.op \in {"signup", "login", "logout", "refresh"} =>
        IF lastResp.ok
        THEN /\ lastResp.status \in {200, 201}
             /\ IF lastResp.op = "logout"
                THEN lastResp.cleared
                ELSE /\ lastResp.setCookie \in issued
                     /\ lastResp.accessToken = AccessOf(lastResp.setCookie)
        ELSE /\ lastResp.message # ""
             /\ lastResp.setCookie = NoToken
             /\ lastResp.accessToken = NoToken
             /\ lastResp.user = NoUser
             /\ ~lastResp.cleared

\* a request without a parsable x-device-info header was answered with the
\* message of the JSON.parse error while accounts and sessions exist
C28_Witness ==
    /\ ~lastResp.ok
    /\ lastResp.message = JsonParseMsg
    /\ lastResp.op = "logout"
    /\ records # {}

\* the presented token is not the one whose hash the pair's record holds
Mismatch(t, d) == \A r \in RecordsOf(t.userId, d) : CurrentTokenOf(r) # t

\* C17 - A logout (device header present) fails with the invalid-token error
\* when the cookie is absent, when the token fails verification, when the pair
\* has no record, or when the presented token is not the token whose hash is
\* stored; each of these failures leaves the Session Store unchanged and does
\* not clear the cookie.
C17_LogoutFailures ==
    [][lastResp'.op = "logout" =>
          \A t \in Presentable, d \in Devices :
              (/\ Logout(t, d)
               /\ \/ t = NoToken
                  \/ ~jwtVerify(t, "refresh")
                  \/ RecordsOf(t.userId, d) = {}
                  \/ Mismatch(t, d))
                => FailedWith(InvalidRefreshMsg)]_svars

\* C21 - A /refresh-token or /logout request whose refreshToken cookie holds a
\* valid access token never succeeds: it is answered with a failure, returns no
\* access token, issues no refresh token, sets no cookie and leaves the
\* Session Store as it was.
C21_AccessTokenIsNoRefreshToken ==
    [][lastResp'.op \in {"refresh", "logout"} =>
          \A t \in issuedAccess, d \in DevInputs :
              (/\ t.kind = "access"
               /\ now < t.exp
               /\ Refresh(t, d) \/ Logout(t, d))
                => /\ ~lastResp'.ok
                   /\ lastResp'.accessToken = NoToken
                   /\ lastResp'.setCookie = NoToken
                   /\ ~lastResp'.cleared
                   /\ issued' = issued
                   /\ records' = records]_svars

\* a refresh that presented something other than a refresh token was answered
\* with a failure while the presenter's session is stored
C21_Witness ==
    /\ lastResp.op = "refresh"
    /\ ~lastResp.ok
    /\ lastResp.message = ReferenceErrorMsg
    /\ \E t \in issuedAccess : now < t.exp /\ RecordsOfUser(t.userId) # {}

\* C23 - After a successful refresh the records of the (user, device) pair are
\* exactly one record, whose hash matches the refresh token the response set
\* as the cookie and whose expiresAt is the time of the rotation + 7 days, so
\* that a refresh presenting that cookie value succeeds in turn (until the
\* record expires): a chain of such refreshes succeeds at every step.
C23_RotationChain ==
    (lastResp.op = "refresh" /\ lastResp.ok) =>
        LET t == lastResp.setCookie
            d == lastResp.dev
        IN  /\ t \in issued
            /\ Cardinality(RecordsOf(t.userId, d)) = 1
            /\ \A r \in RecordsOf(t.userId, d) :
                  /\ r.token = bcryptHash(t, r.token.salt)
                  /\ compareSync(t, r.token)
                  /\ r.expiresAt = t.iat + RecordLifetime
                  /\ now <= r.expiresAt => RefreshAccepts(t, d, r)

\* two refreshes in a row have succeeded on one device, the second presenting
\* the token the first had set
C23_Witness ==
    /\ lastResp.op = "refresh"
    /\ lastResp.ok
    /\ \E t1, t2 \in issued :
          /\ t1.iat < t2.iat
          /\ {<<t1, lastResp.dev>>, <<t2, lastResp.dev>>} \subseteq spent

\* C32 - No success response of signup, login or refresh-token exposes the
\* stored password hash: the user object of the JSON body carries no password
\* of a stored user.
C32_NoPasswordHashInBody ==
    (lastResp.ok /\ lastResp.op \in {"signup", "login", "refresh"}) =>
        lastResp.user.password \notin {u.password : u \in users}

\* C33 - A refresh presenting a token that is not the one whose hash the
\* (user, device) record holds, such as a replayed, already rotated token,
\* fails with the invalid-token error and leaves the Session Store unchanged:
\* the pair's record survives and a refresh with the current token is still
\* accepted afterwards.
C33_ReplayKeepsCurrentRecord ==
    [][lastResp'.op = "refresh" =>
          \A t \in issued, d \in Devices :
              (/\ RecordsOf(t.userId, d) # {}
               /\ Mismatch(t, d)
               /\ Refresh(t, d)) =>
                  /\ FailedWith(InvalidRefreshMsg)
                  /\ \A r \in RecordsOf(t.userId, d) :
                        RefreshAccepts(CurrentTokenOf(r), d, r)
                            => RefreshAccepts(CurrentTokenOf(r), d, r)']_svars

\* the refresh token t is the one that was issued for the session on device d
IssuedFor(t, d) == \E r \in RecordsOf(t.userId, d) : CurrentTokenOf(r) = t

\* C34 - A refresh token issued for device A is never accepted together with
\* another device id B, by /refresh-token or by /logout, whether or not the
\* user has a session on B: the request fails and the records of A and of B
\* stay as they were.
C34_TokenBoundToDevice ==
    [][lastResp'.op \in {"refresh", "logout"} =>
          \A t \in issued, dA \in Devices, dB \in Devices :
              (/\ dA # dB
               /\ IssuedFor(t, dA)
               /\ Mismatch(t, dB)
               /\ (Refresh(t, dB) \/ Logout(t, dB))) =>
                  /\ ~lastResp'.ok
                  /\ lastResp'.setCookie = NoToken
                  /\ records' = records]_svars

\* the step keeps the records of u on device d, and where a refresh with the
\* current token of the pair would have been accepted it still is
Kept(u, d) ==
    /\ RecordsOf(u.id, d)' = RecordsOf(u.id, d)
    /\ \A r \in RecordsOf(u.id, d) :
          RefreshAccepts(CurrentTokenOf(r), d, r) => RefreshAccepts(CurrentTokenOf(r), d, r)'

\* C35 - Users who share a deviceId have independent sessions: a successful
\* login, refresh or logout of one user keeps every record of every other
\* user, on the shared device as on any other, and the other user's current
\* token is accepted after it as it was before.
C35_UsersShareDevice ==
    [][Succeeded({"login", "logout", "refresh"}) =>
          /\ lastResp'.op # "logout" =>
                \A u \in users, d \in Devices : u.id # lastResp'.user.id => Kept(u, d)
          /\ lastResp'.op = "logout" =>
                \A t \in issued, dd \in Devices :
                    Logout(t, dd) =>
                        \A u \in users, d \in Devices : u.id # t.userId => Kept(u, d)]_svars

\* a user has logged out on a device on which another user holds a session
\* whose token is still accepted
C35_Witness ==
    /\ lastResp.op = "logout"
    /\ lastResp.ok
    /\ Cardinality(users) = 2
    /\ \E u \in users : \E r \in RecordsOf(u.id, lastResp.dev) :
          RefreshAccepts(CurrentTokenOf(r), lastResp.dev, r)

\* ======================================================================
\* Claims checked under SpecSignup (usernames of any form)
\* ======================================================================
\* C31 - Every login identifier resolves to at most one user: no user's
\* username equals another user's email, so the lookup of /login,
\* email = x or username = x, never matches two different users.
C31_IdentifierResolvesToOneUser ==
    /\ \A u, v \in users : u # v => u.username # v.email
    /\ \A x \in NameIdentifiers : Cardinality(Matching(x)) <= 1

\* C38 - A signup that ends with a failure response leaves the Credential
\* Store and the Session Store unchanged: no signup answers ok false after
\* the user it was creating has been stored.
C38_FailedSignupChangesNothing ==
    [][(lastResp'.op = "signup" /\ ~lastResp'.ok /\ steps' = steps + 1) =>
          (users' = users /\ records' = records)]_svars

\* ======================================================================
\* Claims checked under SpecStore (all routes of the server)
\* ======================================================================
\* the (user, device) pair holds a stored refresh-token record
Holds(uid, dev) == RecordsOf(uid, dev) # {}
HoldsNext(uid, dev) == \E r \in records' : r.user = uid /\ r.dev = dev
\* the pairs that hold a record before the step and not after it, or the
\* other way round
Changed ==
    {pr \in {u.id : u \in users'} \X Devices : Holds(pr[1], pr[2]) # HoldsNext(pr[1], pr[2])}

C36_GuardIgnoresSessions ==
    /\ \A h \in StoreHeaders :
          authMiddleware(h).next <=>
              (h.scheme = "bearer" /\ h.tok.kind = "access" /\ now < h.tok.exp)
    /\ (lastResp.ok /\ lastResp.op \in {"logout", "refresh"}) =>
          \A t \in issuedAccess :
              now < t.exp => authMiddleware(AuthorizationHeader("bearer", t)).next

\* a notes request carrying the access token of an account that has logged
\* out of its only session was let through
C36_Witness ==
    /\ lastResp.op = "logout"
    /\ lastResp.ok
    /\ guard.next
    /\ guard.user \in issuedAccess
    /\ RecordsOfUser(guard.user.userId) = {}

\* ======================================================================
\* Claims checked under SpecCrash (an interrupted rotation)
\* ======================================================================

\* C22 - A refresh or login interrupted between its deleteMany and its create
\* leaves the device with no refresh-token record; in no state reached through
\* such an interruption does a later refresh accept a token other than the one
\* whose hash is stored (a superseded one, or the one the interrupted request
\* never stored); and a later login leaves exactly one record for the pair.
C22_InterruptedRotation ==
    [][/\ (pc[CrashProc] # "crashed" /\ pc'[CrashProc] = "crashed") =>
             RecordsOf(loc[CrashProc].uid, loc[CrashProc].dev)' = {}
       /\ (pc[CrashProc] = "crashed" /\ lastResp'.ok /\ lastResp'.op = "refresh") =>
             \A t \in CrashTokens, d \in Devices :
                 Refresh(t, d) => \E r \in RecordsOf(t.userId, d) : CurrentTokenOf(r) = t
       /\ (pc[CrashProc] = "crashed" /\ Succeeded({"login"})) =>
             Cardinality({r \in records' : /\ r.user = lastResp'.user.id
                                           /\ r.dev = lastResp'.dev}) = 1]_vars

\* ======================================================================
\* Claims checked under SpecConc (two requests in flight)
\* ======================================================================

\* C2 - Single use under concurrency: of two /refresh-token requests that
\* present the same refresh token for the same (user, device) and whose findOne
\* steps read the same stored record, at most one returns ok:true.
C2_ConcurrentSingleUse ==
    \A p, q \in Procs :
        (/\ p # q
         /\ pc[p] = "done" /\ pc[q] = "done"
         /\ loc[p].op = "refresh" /\ loc[q].op = "refresh"
         /\ loc[p].tok = loc[q].tok
         /\ loc[p].dev = loc[q].dev
         /\ loc[p].token # NoRecord
         /\ loc[p].token = loc[q].token)
        => ~(resp[p].ok /\ resp[q].ok)

\* C4 - The Session Store holds at most one refresh-token record per
\* (user, deviceId) in every reachable state, also while the deleteMany and
\* create steps of two login or refresh requests interleave.
C4_OneRecordPerPairConcurrent ==
    \A r1, r2 \in records :
        (r1.user = r2.user /\ r1.dev = r2.dev) => r1 = r2

\* C14 - In every reachable state of the Credential Store no two user records
\* share an email and no two share a username, also when two signup requests
\* with the same email or username both run their existence checks before
\* either creates its user.
C14_UniqueEmailAndUsername ==
    \A u1, u2 \in users :
        (u1.email = u2.email \/ u1.username = u2.username) => u1 = u2

\* C16 - A successful logout with the current refresh token of (user, device)
\* removes that pair's stored record and clears the refresh cookie, so that no
\* /refresh-token call from that device is accepted afterwards, with the
\* cleared cookie or with the old token, until the next login.
C16_LogoutEndsSession ==
    [][\A t \in issued, d \in Devices :
          (Logout(t, d) /\ lastResp'.ok) =>
              /\ lastResp'.cleared
              /\ RecordsOf(t.userId, d)' = {}
              /\ \A t2 \in issued \cup {NoToken}, r \in records' :
                    t2.userId = t.userId => ~RefreshAccepts(t2, d, r)']_svars

\* ======================================================================
\* Claims checked under SpecClient (one browser tab)
\* ======================================================================
\* the POST /refresh-token calls of the tab that have not been answered yet
RefreshCallsOutstanding ==
    Cardinality(Outstanding) + (IF startup = "outstanding" THEN 1 ELSE 0)
Waiting(r)  == reqs[r].state = "waiting"
Replayed(r) == reqs[r].state = "sent" /\ reqs[r].retry

\* C8: within one tab at most one /refresh-token call is outstanding at any
\* time, counting the interceptor's refreshes and the start-up refresh alike.
C8_OneRefreshOutstanding == RefreshCallsOutstanding <= 1

\* an interceptor refresh is in flight after the start-up refresh was answered,
\* and two handlers wait for it
C8_Witness ==
    /\ startup = "settled"
    /\ Outstanding # {}
    /\ \E r1, r2 \in Reqs : r1 # r2 /\ Waiting(r1) /\ Waiting(r2)

\* C9: the handlers whose 401 arrives before any refresh has settled send one
\* refresh call between them, all await the promise of that call, and each
\* replays its request with the access token that call returned.
C9_SharedRefresh ==
    /\ \A r1, r2 \in Reqs :
          Waiting(r1) /\ Waiting(r2) /\ reqs[r1].epoch = reqs[r2].epoch
              => reqs[r1].awaited = reqs[r2].awaited
    /\ \A r \in Reqs :
          Waiting(r) /\ calls[reqs[r].awaited].state = "outstanding"
              => Outstanding = {reqs[r].awaited} /\ refreshPromise = reqs[r].awaited
    /\ \A r \in Reqs :
          Waiting(r) \/ Replayed(r) => calls[reqs[r].awaited].state # "unused"
    /\ \A r \in Reqs : Replayed(r) => reqs[r].hdr = calls[reqs[r].awaited].token

\* two requests have been replayed with the token of the one refresh they shared
C9_Witness ==
    \E r1, r2 \in Reqs :
        /\ r1 # r2 /\ Replayed(r1) /\ Replayed(r2)
        /\ reqs[r1].awaited = reqs[r2].awaited
        /\ calls[reqs[r1].awaited].outcome = "ok"
        /\ reqs[r1].hdr = calls[reqs[r1].awaited].token

\* C10: when the refresh a request waited for fails (the server's failure
\* envelope included), the request is rejected, the cached auth state is
\* cleared and the user of the UI becomes null.
C10_RefreshFailureLogsOut ==
    [][\A r \in Reqs :
          (/\ reqs[r].awaited # 0
           /\ calls[reqs[r].awaited].outcome \in {"envelope", "error"}
           /\ reqs[r].state \in {"waiting", "sent"}
           /\ reqs'[r].state \in {"rejected", "resolved"})
          => (/\ reqs'[r].state = "rejected"
              /\ authCache' = "empty"
              /\ userState' = "null")]_cvars

\* C11: when the refresh a 401 triggered succeeds, the default Authorization
\* header is set to the newly issued access token before the request is
\* replayed, the replay carries that token, and the caller's promise settles
\* with the outcome of the replay: resolved only if the Access Guard accepted
\* the new token, rejected otherwise, without a second refresh.
C11_ReplayWithNewToken ==
    [][\A r \in Reqs :
          /\ (Waiting(r) /\ calls[reqs[r].awaited].outcome = "ok" /\ ~Waiting(r)')
                => /\ Replayed(r)'
                   /\ authHeader' = calls[reqs[r].awaited].token
                   /\ reqs'[r].hdr = calls[reqs[r].awaited].token
          /\ (Replayed(r) /\ reqs'[r] # reqs[r])
                => /\ reqs'[r].state \in {"resolved", "rejected"}
                   /\ reqs'[r].state = "resolved" => authMiddlewareAccepts(reqs[r].hdr)]_cvars

\* a request was replayed with the token of a successful refresh and its
\* caller's promise has resolved
C11_Witness ==
    \E r \in Reqs :
        /\ reqs[r].state = "resolved"
        /\ reqs[r].retry
        /\ authHeader > 0
        /\ \E c \in Calls : calls[c].outcome = "ok" /\ calls[c].token = authHeader

\* C25 - Each request waits for a refresh at most once and is replayed at most
\* once: a request starts waiting only when it is not yet marked _retry, the
\* mark is never removed, a replay follows a wait only, a 401 on a request
\* already marked _retry is rejected to the caller without starting or
\* awaiting a refresh, and an error other than 401 is rejected without
\* starting a refresh or a replay.
C25_OneWaitOneReplay ==
    [][\A r \in Reqs :
          /\ reqs[r].retry => reqs'[r].retry
          /\ (reqs[r].state # "waiting" /\ reqs'[r].state = "waiting") =>
                (reqs[r].state = "sent" /\ ~reqs[r].retry /\ reqs'[r].retry)
          /\ (reqs[r].state # "sent" /\ reqs'[r].state = "sent" /\ reqs[r].state # "unused") =>
                (reqs[r].state = "waiting" /\ reqs[r].retry)
          /\ (reqs[r].retry /\ Receive(r, "401")) =>
                (reqs'[r].state = "rejected" /\ UNCHANGED <<calls, refreshPromise>>)
          /\ Receive(r, "error") =>
                (reqs'[r].state = "rejected" /\ UNCHANGED <<calls, refreshPromise>>)]_cvars

\* a request was replayed after a refresh that answered with the failure
\* envelope, and the replay was rejected to the caller
C25_Witness ==
    \E r \in Reqs, c \in Calls :
        /\ reqs[r].state = "rejected"
        /\ reqs[r].retry
        /\ calls[c].state = "settled"
        /\ calls[c].outcome = "envelope"
        /\ Outstanding = {}

\* C26 - refreshPromise is set exactly while a refresh call started by the
\* interceptor is outstanding, and then it is the promise of that call: it is
\* assigned in the step that sends the call and cleared in the step in which
\* the call settles, resolved or rejected; so a 401 that is handled when no
\* such call is outstanding sends a new call and awaits that one.
C26_RefreshPromiseTracksCall ==
    [][/\ Outstanding = IF refreshPromise = 0 THEN {} ELSE {refreshPromise}
       /\ Outstanding' = IF refreshPromise' = 0 THEN {} ELSE {refreshPromise'}
       /\ \A r \in Reqs :
             (reqs[r].state # "waiting" /\ reqs'[r].state = "waiting" /\ Outstanding = {}) =>
                 /\ calls[reqs'[r].awaited].state = "unused"
                 /\ calls'[reqs'[r].awaited].state = "outstanding"
                 /\ refreshPromise' = reqs'[r].awaited]_cvars

\* after one refresh was rejected, a second one is outstanding and awaited
C26_Witness ==
    \E c1, c2 \in Calls, r \in Reqs :
        /\ calls[c1].state = "settled"
        /\ calls[c1].outcome = "error"
        /\ calls[c2].state = "outstanding"
        /\ refreshPromise = c2
        /\ reqs[r].state = "waiting"
        /\ reqs[r].awaited = c2

\* C27 - The client makes one /refresh-token call when the application starts.
\* If the server reports success, the returned access token becomes the
\* default Authorization header and the returned profile becomes the user; if
\* the call fails or the server answers with its failure envelope, the user is
\* not set to a profile and no access token is stored.
C27_StartupRefresh ==
    [][/\ (startup # "outstanding" /\ startup' = "outstanding") => startup = "idle"
       /\ \A o \in RefreshOutcomes :
             StartupSettle(o) =>
                 IF o = "ok"
                 THEN /\ authHeader' = nextTok
                      /\ authHeader' \in 1..(nextTok' - 1)
                      /\ userState' = "profile"
                 ELSE /\ userState' # "profile"
                      /\ authHeader' \notin 1..(nextTok' - 1)]_cvars

\* the start-up refresh was answered with the failure envelope
C27_Witness ==
    /\ startup = "settled"
    /\ userState = "undefined"
    /\ authCache = "data"
    /\ nextTok = 1

\* C30 - In every state of the client the default Authorization header is
\* either absent or "Bearer " followed by an access token that the server
\* issued; a /refresh-token answer carrying the failure envelope (HTTP 200,
\* ok false, no accessToken) leaves the stored access token as it was.
C30_HeaderHoldsIssuedToken ==
    authHeader = NoAuth \/ authHeader \in 1..(nextTok - 1)

\* ======================================================================
\* Claims checked under SpecLogout (the logout button)
\* ======================================================================
\* C37 - A logout that the server confirms with ok true sets the user to null
\* and removes the default Authorization header; a logout that fails (the
\* failure envelope, or no answer) leaves the user and the header unchanged.
C37_ClientLogout ==
    [][logoutMutation' # logoutMutation =>
          \A o \in LogoutOutcomes :
              LogoutSettle(o) =>
                  IF o = "ok"
                  THEN userState' = "null" /\ authHeader' = NoAuth
                  ELSE UNCHANGED <<userState, authHeader>>]_vars

\* the server answered a logout with its failure envelope and the user is
\* still signed in with the token the header held
C37_Witness ==
    /\ logoutMutation = "error"
    /\ userState = "profile"
    /\ authHeader \in 1..(nextTok - 1)

\* ======================================================================
\* Claims checked under SpecLive (every call is answered)
\* ======================================================================
\* C39 - Provided every HTTP call receives a response, every request that
\* was answered 401 and waits for a refresh eventually settles, resolved or
\* rejected, also when the /refresh-token call is itself answered 401.
C39_UnauthorizedRequestSettles ==
    \A r \in Reqs :
        (reqs[r].state = "waiting") ~> (reqs[r].state \in {"resolved", "rejected"})

\* ======================================================================
\* Claims checked under SpecGuard (the Access Guard)
\* ======================================================================
\* the header carries an access token the server signed that has not expired
CarriesValidAccessToken(h) ==
    /\ h.scheme = "bearer"
    /\ h.tok.kind = "access"
    /\ now < h.tok.exp

\* C12: the Access Guard answers 401 and does not call the protected handler
\* for every request whose Authorization header is missing, has no "Bearer "
\* token, carries a token that fails verification, or carries a token signed
\* with the refresh secret.
C12_GuardRejects ==
    (guard # NotCalled /\ ~CarriesValidAccessToken(header))
        => (guard.status = 401 /\ ~guard.next)

\* a token signed with the refresh secret, still valid as a refresh token, was
\* presented as a Bearer token and answered 401
C12_Witness ==
    /\ header.scheme = "bearer"
    /\ header.tok.kind = "refresh"
    /\ now < header.tok.exp
    /\ guard.status = 401

\* C20 - An access token issued at time t carries the expiry t + 1 hour and the
\* Access Guard rejects it at every time later than t + 1 hour; a refresh token
\* issued at time t carries the expiry t + 7 days, the lifetime of its stored
\* record (expiresAt) and of its cookie (maxAge).
C20_TokenLifetimes ==
    guard # NotCalled =>
        /\ header.tok.kind = "access" =>
              /\ header.tok.exp = header.tok.iat + AccessLifetime
              /\ now > header.tok.iat + AccessLifetime => ~guard.next
        /\ header.tok.kind = "refresh" =>
              header.tok.exp = header.tok.iat + RecordLifetime

\* C29 - The Access Guard answers every request it rejects in the same way,
\* status 401 with the body { message: "Unauthorized" }, whatever makes the
\* token unacceptable (no header, no Bearer token, a malformed token, an expired
\* one, one signed with the refresh secret): the responses to any two rejected
\* requests are equal.
C29_UniformRejection ==
    /\ \A h1, h2 \in GuardHeaders :
          (~authMiddleware(h1).next /\ ~authMiddleware(h2).next) =>
              /\ authMiddleware(h1) = authMiddleware(h2)
              /\ authMiddleware(h1).status = 401
              /\ authMiddleware(h1).message = UnauthorizedMsg
    /\ (guard # NotCalled /\ ~guard.next) =>
          (guard.status = 401 /\ guard.message = UnauthorizedMsg /\ guard.user = NoToken)

\* an access token was presented after its exp claim and answered 401
C29_Witness ==
    /\ header.scheme = "bearer"
    /\ header.tok.kind = "access"
    /\ now >= header.tok.exp
    /\ guard.status = 401
    /\ guard.message = UnauthorizedMsg

====
